---- MODULE Spec2Model ----
(***************************************************************************)
(* The notebook "0401 - The matplotlib Architecture" as a state machine:   *)
(* its six code cells, statement by statement, run top to bottom by a      *)
(* notebook kernel from a fresh start.  The cells are data (Cell1..Cell6), *)
(* transcribed from the notebook's "source" arrays; the kernel resolves    *)
(* each name in its namespace and applies the library routine the name is  *)
(* bound to.  Library routines are modelled by their documented effect on  *)
(* the objects the notebook hands them.                                    *)
(***************************************************************************)
EXTENDS Integers, Sequences, FiniteSets, TLC

VARIABLES
    queue,      \* cells still to be executed, in order (execute requests in flight)
    executing,  \* the cells the kernel is executing now
    pc,         \* pc[c]: the statement of cell c to execute next (0: not executing)
    ns,         \* the kernel's user namespace: name -> value
    heap,       \* the objects created so far; an object's id is its index
    figfmt,     \* the display format registered for Figure objects
    rng,        \* the state of numpy's global random generator
    outputs,    \* outputs[c]: the outputs cell c holds in the notebook file
    execCount,  \* execCount[c]: the execution_count cell c holds (0: not run)
    counter,    \* the kernel's execution counter
    calls,      \* every library call made so far, in order
    done,       \* every statement executed to completion, in order, as <<cell, stmt>>
    raised,     \* every exception raised so far, where it was raised
    error,      \* the exception that ended the run, if any
    files       \* everything written outside the kernel's memory and the notebook

vars == << queue, executing, pc, ns, heap, figfmt, rng, outputs, execCount,
           counter, calls, done, raised, error, files >>

\* ---------------------------------------------------------------- bounds

\* numpy seeds its generator from the system's entropy: one of 0..MaxSeed.
MaxSeed == 3

\* ------------------------------------------------------ program constants

SampleSize == 10000
NumBins == 100
SubplotSpec == 111

\* ------------------------------------------------------- statement syntax

NameArg(s) == [k |-> "name", s |-> s, n |-> 0]
StrArg(s) == [k |-> "str", s |-> s, n |-> 0]
IntArg(n) == [k |-> "int", s |-> "", n |-> n]

\* A statement at the top level of a cell; try: it sits inside a try/except.
Stmt(kind, module, name, target, recv, args, semi) ==
    [kind |-> kind, module |-> module, name |-> name, target |-> target,
     recv |-> recv, args |-> args, semi |-> semi, try |-> FALSE]

Magic(name, arg) == Stmt("magic", "", name, "", "", << StrArg(arg) >>, FALSE)
Import(module, as) == Stmt("import", module, "", as, "", << >>, FALSE)
FromImport(module, name) == Stmt("from", module, name, name, "", << >>, FALSE)
\* target = recv.name(args) ; target "" for an expression statement
Call(target, recv, name, args, semi) ==
    Stmt("call", "", name, target, recv, args, semi)

TitleText == "Normal distribution with $\\mu=0, \\sigma=1$"

\* --------------------------------------------------------- the code cells

\* Cell1 as the course's usual setup, which also imports pyplot.
Cell1WithPyplot ==
    << Magic("matplotlib", "inline"),
       Import("numpy", "np"),
       Import("matplotlib.pyplot", "plt"),
       FromImport("IPython.display", "set_matplotlib_formats"),
       Call("", "", "set_matplotlib_formats", << StrArg("retina") >>, FALSE) >>

Cell1 ==
    << Magic("matplotlib", "inline"),
       Import("numpy", "np"),
       FromImport("IPython.display", "set_matplotlib_formats"),
       Call("", "", "set_matplotlib_formats", << StrArg("retina") >>, FALSE) >>

\* Cell2 without its second import.
Cell2NoFigureImport ==
    << FromImport("matplotlib.backends.backend_agg", "FigureCanvasAgg") >>

Cell2 ==
    << FromImport("matplotlib.backends.backend_agg", "FigureCanvasAgg"),
       FromImport("matplotlib.figure", "Figure") >>

Cell3 ==
    << Call("fig", "", "Figure", << >>, FALSE),
       Call("canvas", "", "FigureCanvasAgg", << NameArg("fig") >>, FALSE) >>

\* Cell4 drawing a sample of another size.
Cell4Thousand ==
    << Call("x", "np", "random.randn", << IntArg(1000) >>, FALSE) >>

Cell4 ==
    << Call("x", "np", "random.randn", << IntArg(SampleSize) >>, FALSE) >>

\* Cell5 setting the title before plotting.
Cell5TitleFirst ==
    << Call("ax", "fig", "add_subplot", << IntArg(SubplotSpec) >>, FALSE),
       Call("", "ax", "set_title", << StrArg(TitleText) >>, FALSE),
       Call("", "ax", "hist", << NameArg("x"), IntArg(NumBins) >>, TRUE) >>

\* Cell5 creating a Figure of its own first.
Cell5NewFigure ==
    << Call("fig", "", "Figure", << >>, FALSE),
       Call("ax", "fig", "add_subplot", << IntArg(SubplotSpec) >>, FALSE),
       Call("", "ax", "hist", << NameArg("x"), IntArg(NumBins) >>, FALSE),
       Call("", "ax", "set_title", << StrArg(TitleText) >>, TRUE) >>

\* Cell5 with the ';' after set_title left out.
Cell5NoSemicolon ==
    << Call("ax", "fig", "add_subplot", << IntArg(SubplotSpec) >>, FALSE),
       Call("", "ax", "hist", << NameArg("x"), IntArg(NumBins) >>, FALSE),
       Call("", "ax", "set_title", << StrArg(TitleText) >>, FALSE) >>

Cell5 ==
    << Call("ax", "fig", "add_subplot", << IntArg(SubplotSpec) >>, FALSE),
       Call("", "ax", "hist", << NameArg("x"), IntArg(NumBins) >>, FALSE),
       Call("", "ax", "set_title", << StrArg(TitleText) >>, TRUE) >>

Cell6 ==
    << FromImport("IPython.display", "display_png"),
       Call("", "", "display_png", << NameArg("fig") >>, FALSE) >>

\* The cells with the sampling cell moved above the figure cell.
CellsSampleFirst == << Cell1, Cell2, Cell4, Cell3, Cell5, Cell6 >>

Cells == << Cell1, Cell2, Cell3, Cell4, Cell5, Cell6 >>

CellIds == 1..Len(Cells)

\* The order a top-to-bottom run submits the cells in.
RunAll == [i \in 1..Len(Cells) |-> i]

Names == {"np", "set_matplotlib_formats", "FigureCanvasAgg", "Figure", "fig",
          "canvas", "x", "ax", "display_png", "plt"}

\* ----------------------------------------------------------------- values

Unbound == [k |-> "unbound", q |-> "", a |-> "", id |-> 0, s |-> "", n |-> 0]
NoneVal == [Unbound EXCEPT !.k = "none"]
Module(q) == [Unbound EXCEPT !.k = "mod", !.q = q]
Callable(q, a) == [Unbound EXCEPT !.k = "callable", !.q = q, !.a = a]
Ref(id) == [Unbound EXCEPT !.k = "obj", !.id = id]
TupleVal == [Unbound EXCEPT !.k = "tuple"]
TextVal(s) == [Unbound EXCEPT !.k = "text", !.s = s]
Lit(arg) == [Unbound EXCEPT !.k = arg.k, !.s = arg.s, !.n = arg.n]

\* What each importable module exports to the notebook.
Exports(module) ==
    CASE module = "IPython.display" -> {"set_matplotlib_formats", "display_png"}
      [] module = "matplotlib.backends.backend_agg" -> {"FigureCanvasAgg"}
      [] module = "matplotlib.figure" -> {"Figure"}
      [] module = "matplotlib.pyplot" -> {"figure", "hist", "title", "show"}
      [] OTHER -> {}

Importable == {"numpy", "IPython.display", "matplotlib.backends.backend_agg",
               "matplotlib.figure", "matplotlib.pyplot"}

\* ---------------------------------------------------------------- objects

NoHist == << >>

Obj(type) ==
    [type |-> type, figure |-> 0, canvas |-> 0, axes |-> << >>, spec |-> 0,
     size |-> 0, data |-> 0, hists |-> NoHist, title |-> ""]

IsA(h, v, type) == v.k = "obj" /\ v.id \in 1..Len(h) /\ h[v.id].type = type

\* The layer of the architecture a class belongs to (0: none of the three).
BackendLayer == 1
ArtistLayer == 2
ScriptingLayer == 3

Layer(type) ==
    CASE type \in {"FigureCanvasAgg", "Renderer"} -> BackendLayer
      [] type \in {"Figure", "Axes"} -> ArtistLayer
      [] type = "pyplot" -> ScriptingLayer
      [] OTHER -> 0

\* The objects that object i of heap h holds a reference to.
RefsOf(h, i) ==
    ({h[i].figure, h[i].canvas} \cup {h[i].axes[j] : j \in 1..Len(h[i].axes)})
        \ {0}

\* ------------------------------------------------------- library routines
\* A routine's result: the exception it raised ("" for none), the value it
\* returned, the heap, the display format and the generator state it left,
\* the outputs it published and the files it wrote.

Result(exc, val, h, fmt, g, out, writes) ==
    [exc |-> exc, val |-> val, heap |-> h, fmt |-> fmt, rng |-> g,
     out |-> out, writes |-> writes]

Raise(exc, h, fmt, g) == Result(exc, NoneVal, h, fmt, g, << >>, {})

\* set_matplotlib_formats('retina'): register the format Figures display in.
set_matplotlib_formats(args, h, fmt, g) ==
    IF Len(args) = 1 /\ args[1].k = "str" /\ args[1].s \in {"png", "retina"}
    THEN Result("", NoneVal, h, args[1].s, g, << >>, {})
    ELSE Raise("ValueError", h, fmt, g)

\* Figure(): a new Figure with no axes and no canvas attached.
Figure(args, h, fmt, g) ==
    Result("", Ref(Len(h) + 1), Append(h, Obj("Figure")), fmt, g, << >>, {})

\* A canvas that is set as the Figure's canvas but does not keep the Figure.
FigureCanvasAggDetached(args, h, fmt, g) ==
    IF Len(args) = 1 /\ IsA(h, args[1], "Figure")
    THEN Result("", Ref(Len(h) + 1),
                Append([h EXCEPT ![args[1].id].canvas = Len(h) + 1],
                       Obj("FigureCanvasAgg")),
                fmt, g, << >>, {})
    ELSE Raise("AttributeError", h, fmt, g)

\* FigureCanvasAgg(fig): a new canvas holding the Figure it is given, and set as
\* that Figure's canvas.
FigureCanvasAgg(args, h, fmt, g) ==
    IF Len(args) = 1 /\ IsA(h, args[1], "Figure")
    THEN LET f == args[1].id
             c == Len(h) + 1
         IN Result("", Ref(c),
                   Append([h EXCEPT ![f].canvas = c],
                          [Obj("FigureCanvasAgg") EXCEPT !.figure = f]),
                   fmt, g, << >>, {})
    ELSE Raise("AttributeError", h, fmt, g)

\* np.random.randn(n): a new array of n values drawn from the generator.
randn(args, h, fmt, g) ==
    IF Len(args) = 1 /\ args[1].k = "int"
    THEN Result("", Ref(Len(h) + 1),
                Append(h, [Obj("ndarray") EXCEPT !.size = args[1].n, !.data = g]),
                fmt, g + 1, << >>, {})
    ELSE Raise("TypeError", h, fmt, g)

\* fig.add_subplot(111): a new Axes on the Figure (the one the Figure already has
\* at that position, if any).
add_subplot(self, args, h, fmt, g) ==
    IF Len(args) = 1 /\ args[1].k = "int"
    THEN LET old == {j \in 1..Len(h[self].axes) :
                        h[h[self].axes[j]].spec = args[1].n}
         IN IF old # {}
            THEN Result("", Ref(h[self].axes[CHOOSE j \in old : TRUE]), h, fmt, g,
                        << >>, {})
            ELSE LET a == Len(h) + 1
                 IN Result("", Ref(a),
                           Append([h EXCEPT ![self].axes = Append(@, a)],
                                  [Obj("Axes") EXCEPT !.figure = self,
                                                      !.spec = args[1].n]),
                           fmt, g, << >>, {})
    ELSE Raise("ValueError", h, fmt, g)

\* ax.hist(x, 100): bin the array's values as they are now and add the bars.
hist(self, args, h, fmt, g) ==
    IF Len(args) = 2 /\ IsA(h, args[1], "ndarray") /\ args[2].k = "int"
    THEN Result("", TupleVal,
                [h EXCEPT ![self].hists =
                    Append(@, [n |-> h[args[1].id].size,
                               data |-> h[args[1].id].data,
                               bins |-> args[2].n])],
                fmt, g, << >>, {})
    ELSE Raise("ValueError", h, fmt, g)

\* ax.set_title(s): set the title; returns the Text of the title.
set_title(self, args, h, fmt, g) ==
    IF Len(args) = 1 /\ args[1].k = "str"
    THEN Result("", TextVal(args[1].s), [h EXCEPT ![self].title = args[1].s],
                fmt, g, << >>, {})
    ELSE Raise("TypeError", h, fmt, g)

\* What the canvas c draws: each Axes of its Figure, with title and bars.
Rendering(h, c) ==
    LET f == h[c].figure
    IN [j \in 1..Len(h[f].axes) |->
            [title |-> h[h[f].axes[j]].title, hists |-> h[h[f].axes[j]].hists]]

\* The PNG encoding of what the canvas draws: header, image data, end.
Png(h, c) ==
    << [chunk |-> "IHDR", body |-> << >>],
       [chunk |-> "IDAT", body |-> Rendering(h, c)],
       [chunk |-> "IEND", body |-> << >>] >>

ImageOutput(h, c, fmt) ==
    [output_type |-> "display_data", mime |-> "image/png", data |-> Png(h, c),
     retina |-> (fmt = "retina"), ename |-> ""]

\* A display that also saves the image to a file, as savefig would.
display_png_savefig(args, h, fmt, g) ==
    IF Len(args) = 1 /\ IsA(h, args[1], "Figure") /\ fmt # "none"
       /\ h[args[1].id].axes # << >> /\ h[args[1].id].canvas # 0
    THEN Result("", NoneVal, h, fmt, g,
                << ImageOutput(h, h[args[1].id].canvas, fmt) >>, {"figure.png"})
    ELSE Result("", NoneVal, h, fmt, g, << >>, {})

\* display_png(fig): publish the object's PNG representation, if it has one. A
\* Figure has one once a format is registered and it holds an Axes; its canvas
\* renders it, in memory.
display_png(args, h, fmt, g) ==
    IF Len(args) = 1 /\ IsA(h, args[1], "Figure") /\ fmt # "none"
       /\ h[args[1].id].axes # << >>
    THEN IF h[args[1].id].canvas = 0
         THEN Raise("AttributeError", h, fmt, g)
         ELSE Result("", NoneVal, h, fmt, g,
                     << ImageOutput(h, h[args[1].id].canvas, fmt) >>, {})
    ELSE Result("", NoneVal, h, fmt, g, << >>, {})

\* ------------------------------------------------------------ interpreter

\* The routine a (module or class, attribute) pair names, applied.
Apply(owner, attr, self, args, h, fmt, g) ==
    CASE owner = "IPython.display" /\ attr = "set_matplotlib_formats" ->
            set_matplotlib_formats(args, h, fmt, g)
      [] owner = "IPython.display" /\ attr = "display_png" ->
            display_png(args, h, fmt, g)
      [] owner = "matplotlib.figure" /\ attr = "Figure" ->
            Figure(args, h, fmt, g)
      [] owner = "matplotlib.backends.backend_agg" /\ attr = "FigureCanvasAgg" ->
            FigureCanvasAgg(args, h, fmt, g)
      [] owner = "numpy" /\ attr = "random.randn" ->
            randn(args, h, fmt, g)
      [] owner = "Figure" /\ attr = "add_subplot" ->
            add_subplot(self, args, h, fmt, g)
      [] owner = "Axes" /\ attr = "hist" ->
            hist(self, args, h, fmt, g)
      [] owner = "Axes" /\ attr = "set_title" ->
            set_title(self, args, h, fmt, g)
      [] OTHER -> Raise("AttributeError", h, fmt, g)

\* Where a call statement's callee lives, given the namespace env.
Owner(stmt, env, h) ==
    IF stmt.recv = "" THEN env[stmt.name].q
    ELSE IF env[stmt.recv].k = "mod" THEN env[stmt.recv].q
    ELSE IF env[stmt.recv].k = "obj" THEN h[env[stmt.recv].id].type
    ELSE ""

Attr(stmt, env) == IF stmt.recv = "" THEN env[stmt.name].a ELSE stmt.name

Self(stmt, env) ==
    IF stmt.recv # "" /\ env[stmt.recv].k = "obj" THEN env[stmt.recv].id ELSE 0

ArgValues(stmt, env) ==
    [i \in 1..Len(stmt.args) |->
        IF stmt.args[i].k = "name" THEN env[stmt.args[i].s] ELSE Lit(stmt.args[i])]

\* The names a statement reads.
Reads(stmt) ==
    (IF stmt.kind # "call" THEN {}
     ELSE IF stmt.recv = "" THEN {stmt.name} ELSE {stmt.recv})
    \cup {stmt.args[i].s : i \in {j \in 1..Len(stmt.args) : stmt.args[j].k = "name"}}

\* One statement, run in namespace env on heap h.
Run(stmt, env, h, fmt, g) ==
    CASE stmt.kind = "magic" ->
            \* %matplotlib inline: figures display inline, as PNG
            IF stmt.name = "matplotlib" /\ stmt.args[1].s = "inline"
            THEN Result("", NoneVal, h, "png", g, << >>, {})
            ELSE Raise("UsageError", h, fmt, g)
      [] stmt.kind = "import" ->
            IF stmt.module \in Importable
            THEN Result("", Module(stmt.module), h, fmt, g, << >>, {})
            ELSE Raise("ImportError", h, fmt, g)
      [] stmt.kind = "from" ->
            IF stmt.module \in Importable /\ stmt.name \in Exports(stmt.module)
            THEN Result("", Callable(stmt.module, stmt.name), h, fmt, g, << >>, {})
            ELSE Raise("ImportError", h, fmt, g)
      [] OTHER ->
            IF \E n \in Reads(stmt) : env[n].k = "unbound"
            THEN Raise("NameError", h, fmt, g)
            ELSE IF stmt.recv = "" /\ env[stmt.name].k # "callable"
            THEN Raise("TypeError", h, fmt, g)
            ELSE Apply(Owner(stmt, env, h), Attr(stmt, env), Self(stmt, env),
                       ArgValues(stmt, env), h, fmt, g)

\* The record of a call that returned: what was called, on what, with what.
CallRecord(stmt, env, h, r) ==
    [owner |-> Owner(stmt, env, h), attr |-> Attr(stmt, env),
     self |-> Self(stmt, env),
     args |-> [i \in 1..Len(stmt.args) |-> ArgValues(stmt, env)[i].id],
     ret |-> r.val.id]

\* The value a cell shows as its result: that of its last statement, when it is
\* an expression not ended by ';' whose value is not None.
Echo(c, i, stmt, r) ==
    IF i = Len(Cells[c]) /\ stmt.kind = "call" /\ stmt.target = "" /\ ~stmt.semi
       /\ r.val.k # "none"
    THEN << [output_type |-> "execute_result", mime |-> "text/plain",
             data |-> << >>, retina |-> FALSE, ename |-> ""] >>
    ELSE << >>

ErrorOutput(exc) ==
    [output_type |-> "error", mime |-> "", data |-> << >>, retina |-> FALSE,
     ename |-> exc]

NoError == [cell |-> 0, stmt |-> 0, exc |-> ""]

\* ------------------------------------------------------------------ kernel

Init ==
    /\ queue = RunAll
    /\ executing = {}
    /\ pc = [c \in CellIds |-> 0]
    /\ ns = [n \in Names |-> Unbound]
    /\ heap = << >>
    /\ figfmt = "none"
    /\ rng \in 0..MaxSeed
    /\ outputs = [c \in CellIds |-> << >>]
    /\ execCount = [c \in CellIds |-> 0]
    /\ counter = 0
    /\ calls = << >>
    /\ done = << >>
    /\ raised = << >>
    /\ error = NoError
    /\ files = {}

\* A kernel that takes the next request while a cell is still executing.
StartCellWhileBusy ==
    /\ queue # << >>
    /\ LET c == Head(queue)
       IN /\ executing' = executing \cup {c}
          /\ queue' = Tail(queue)
          /\ pc' = [pc EXCEPT ![c] = 1]
          /\ counter' = counter + 1
          /\ execCount' = [execCount EXCEPT ![c] = counter + 1]
          /\ outputs' = [outputs EXCEPT ![c] = << >>]
    /\ UNCHANGED << ns, heap, figfmt, rng, calls, done, raised, error, files >>

\* The kernel takes the next execute request once it is idle.
StartCell ==
    /\ queue # << >>
    /\ executing = {}
    /\ LET c == Head(queue)
       IN /\ executing' = executing \cup {c}
          /\ queue' = Tail(queue)
          /\ pc' = [pc EXCEPT ![c] = 1]
          /\ counter' = counter + 1
          /\ execCount' = [execCount EXCEPT ![c] = counter + 1]
          /\ outputs' = [outputs EXCEPT ![c] = << >>]
    /\ UNCHANGED << ns, heap, figfmt, rng, calls, done, raised, error, files >>

\* An exception that stops its cell but leaves the queued requests in place.
ThrowAndContinue(c, i, stmt, exc) ==
    /\ raised' = Append(raised, [cell |-> c, stmt |-> i, exc |-> exc])
    /\ error' = [cell |-> c, stmt |-> i, exc |-> exc]
    /\ outputs' = [outputs EXCEPT ![c] = Append(@, ErrorOutput(exc))]
    /\ executing' = executing \ {c}
    /\ pc' = [pc EXCEPT ![c] = 0]
    /\ UNCHANGED << queue, ns, heap, figfmt, rng, execCount, counter, calls, done,
                    files >>

\* An exception raised by statement i of cell c. Nothing in the cell catches it:
\* the cell stops there, shows the error, and the requests still queued are
\* dropped.
Throw(c, i, stmt, exc) ==
    /\ raised' = Append(raised, [cell |-> c, stmt |-> i, exc |-> exc])
    /\ IF stmt.try
       THEN /\ pc' = [pc EXCEPT ![c] = i + 1]
            /\ UNCHANGED << queue, executing, outputs, error >>
       ELSE /\ error' = [cell |-> c, stmt |-> i, exc |-> exc]
            /\ outputs' = [outputs EXCEPT ![c] = Append(@, ErrorOutput(exc))]
            /\ executing' = executing \ {c}
            /\ queue' = << >>
            /\ pc' = [pc EXCEPT ![c] = 0]
    /\ UNCHANGED << ns, heap, figfmt, rng, execCount, counter, calls, done, files >>

\* The kernel runs the next statement of the executing cell.
ExecStmt ==
    \E c \in executing :
        /\ pc[c] \in 1..Len(Cells[c])
        /\ LET i == pc[c]
               stmt == Cells[c][i]
               r == Run(stmt, ns, heap, figfmt, rng)
           IN IF r.exc # ""
              THEN Throw(c, i, stmt, r.exc)
              ELSE /\ ns' = IF stmt.target = "" THEN ns
                            ELSE [ns EXCEPT ![stmt.target] = r.val]
                   /\ heap' = r.heap
                   /\ figfmt' = r.fmt
                   /\ rng' = r.rng
                   /\ files' = files \cup r.writes
                   /\ outputs' = [outputs EXCEPT
                                     ![c] = @ \o r.out \o Echo(c, i, stmt, r)]
                   /\ calls' = IF stmt.kind = "call"
                               THEN Append(calls, CallRecord(stmt, ns, heap, r))
                               ELSE calls
                   /\ done' = Append(done, << c, i >>)
                   /\ pc' = [pc EXCEPT ![c] = i + 1]
                   /\ UNCHANGED << queue, executing, execCount, counter, raised,
                                   error >>

\* The cell has run its last statement: the kernel is idle again.
FinishCell ==
    \E c \in executing :
        /\ pc[c] = Len(Cells[c]) + 1
        /\ executing' = executing \ {c}
        /\ pc' = [pc EXCEPT ![c] = 0]
        /\ UNCHANGED << queue, ns, heap, figfmt, rng, outputs, execCount, counter,
                        calls, done, raised, error, files >>

\* The exceptions a library call may fail with.
LibExceptions == {"ValueError", "MemoryError"}

\* A call into the plotting library or the sampling routine fails.
LibraryRaises ==
    \E c \in executing, exc \in LibExceptions :
        /\ pc[c] \in 1..Len(Cells[c])
        /\ Cells[c][pc[c]].kind = "call"
        /\ Throw(c, pc[c], Cells[c][pc[c]], exc)

Next == StartCell \/ ExecStmt \/ FinishCell

Spec == Init /\ [][Next]_vars

\* The kernel does not stop while a request is queued or a cell is executing.
LiveSpec == Spec /\ WF_vars(Next)

FaultNext == Next \/ LibraryRaises

FaultSpec == Init /\ [][FaultNext]_vars

Finished == queue = << >> /\ executing = {} /\ error = NoError

\* ---------------------------------------------------------------- helpers

IsPrefix(s, t) == Len(s) <= Len(t) /\ s = SubSeq(t, 1, Len(s))

\* Every statement of the notebook, top to bottom, as <<cell, stmt>>.
Program ==
    LET F[c \in 0..Len(Cells)] ==
            IF c = 0 THEN << >>
            ELSE F[c - 1] \o [i \in 1..Len(Cells[c]) |-> << c, i >>]
    IN F[Len(Cells)]

Before(p, q) == p[1] < q[1] \/ (p[1] = q[1] /\ p[2] < q[2])

\* The cell that renders, and where in it.
RenderCell ==
    CHOOSE c \in CellIds :
        \E i \in 1..Len(Cells[c]) :
            Cells[c][i].kind = "call" /\ Cells[c][i].name = "display_png"

RenderPos ==
    << RenderCell,
       CHOOSE i \in 1..Len(Cells[RenderCell]) :
           Cells[RenderCell][i].name = "display_png"
           /\ Cells[RenderCell][i].kind = "call" >>

IsImage(o) == o.output_type = "display_data" /\ o.mime = "image/png"

Images(c) == {k \in 1..Len(outputs[c]) : IsImage(outputs[c][k])}

\* The library routines called so far, by name, in order.
CallTrace == [k \in 1..Len(calls) |-> calls[k].attr]

\* ----------------------------------------------------------------- claims

\* The five operational steps, by the routine each one calls; the histogram
\* step is the three calls of the histogram cell.
OperationalOrder ==
    << "Figure", "FigureCanvasAgg", "random.randn", "add_subplot", "hist",
       "set_title", "display_png" >>

IsOperational(a) == \E k \in 1..Len(OperationalOrder) : OperationalOrder[k] = a

OpTrace == SelectSeq(CallTrace, IsOperational)

\* C1: in a top-to-bottom run the statements execute in the notebook's order,
\* one after the other; the operational calls made so far are always an initial
\* part of Figure, FigureCanvasAgg, randn, add_subplot/hist/set_title,
\* display_png (so none is repeated, skipped or reordered), no other call is
\* made once the first of them has been made, and a finished run has made all
\* of them.
C1_FixedLinearOrder ==
    /\ IsPrefix(done, Program)
    /\ IsPrefix(OpTrace, OperationalOrder)
    /\ \A k \in 1..Len(CallTrace) :
          ~IsOperational(CallTrace[k]) => \A j \in 1..k : ~IsOperational(CallTrace[j])
    /\ Finished => (done = Program /\ OpTrace = OperationalOrder)

C1_Witness == Finished /\ OpTrace = OperationalOrder

\* C2: the cells other than the render cell never hold an output; the render
\* cell, which is the last code cell, holds at most one, and after a finished
\* run exactly one, a display_data output of mime type image/png.
C2_OnlyOutputIsThePng ==
    /\ RenderCell = Len(Cells)
    /\ \A c \in CellIds \ {RenderCell} : outputs[c] = << >>
    /\ Len(outputs[RenderCell]) <= 1
    /\ \A k \in 1..Len(outputs[RenderCell]) : IsImage(outputs[RenderCell][k])
    /\ Finished => Len(outputs[RenderCell]) = 1

C2_Witness ==
    /\ Finished
    /\ outputs[RenderCell] # << >>
    /\ IsImage(outputs[RenderCell][1])
    /\ \A c \in CellIds \ {RenderCell} : execCount[c] > 0 /\ outputs[c] = << >>

\* A run that completed: every cell ran every statement, nothing was raised,
\* and the render cell holds a non-empty image.
Completed ==
    /\ Finished
    /\ done = Program
    /\ \A c \in CellIds : execCount[c] > 0
    /\ raised = << >>
    /\ \E k \in Images(RenderCell) :
          /\ Len(outputs[RenderCell][k].data) > 0
          /\ \E j \in 1..Len(outputs[RenderCell][k].data) :
                /\ outputs[RenderCell][k].data[j].chunk = "IDAT"
                /\ outputs[RenderCell][k].data[j].body # << >>

\* C3: a top-to-bottom run from a fresh kernel, in which the kernel keeps
\* serving its queue, ends with all six cells completed, nothing raised and a
\* non-empty image in the render cell.
C3_RunCompletes == <>Completed

C3_Witness == Completed /\ Len(done) = Len(Program) /\ counter = Len(Cells)

\* The statements of cell c executed so far.
Ran(c) == {k \in 1..Len(done) : done[k][1] = c}

C5_FailurePropagates ==
    /\ raised # << >> => error # NoError
    /\ error # NoError =>
          /\ raised = << error >>
          /\ outputs[error.cell] # << >>
          /\ outputs[error.cell][Len(outputs[error.cell])] = ErrorOutput(error.exc)
          /\ \A k \in 1..Len(done) : Before(done[k], << error.cell, error.stmt >>)
          /\ executing = {} /\ queue = << >>
          /\ Before(<< error.cell, error.stmt >>, RenderPos) =>
                \A c \in CellIds : Images(c) = {}

C5_Witness ==
    /\ error.cell = 5 /\ error.stmt = 2 /\ error.exc = "ValueError"
    /\ done[Len(done)] = << 5, 1 >>
    /\ \A c \in CellIds : Images(c) = {}

UpwardRefs ==
    {<< i, j >> \in (1..Len(heap)) \X (1..Len(heap)) :
        /\ j \in RefsOf(heap, i)
        /\ Layer(heap[i].type) # 0
        /\ Layer(heap[i].type) < Layer(heap[j].type)}

CanvasOf == {<< calls[k].ret, calls[k].args[1] >> :
                k \in {j \in 1..Len(calls) : calls[j].attr = "FigureCanvasAgg"}}

LowerLayerOwners ==
    {"matplotlib.figure", "matplotlib.backends.backend_agg", "Figure", "Axes"}

\* C9: no name of the namespace is ever bound to pyplot or to one of its
\* functions, no call is ever made to pyplot, and every object of the plotting
\* library is a Figure, an Axes returned by add_subplot on a Figure, or a
\* FigureCanvasAgg; a finished run has made its image this way.
C9_PyplotBypassed ==
    /\ \A n \in Names : ns[n].q # "matplotlib.pyplot"
    /\ \A k \in 1..Len(calls) :
          calls[k].owner \in LowerLayerOwners \cup {"IPython.display", "numpy"}
    /\ \A i \in 1..Len(heap) :
          /\ heap[i].type \in {"Figure", "Axes", "FigureCanvasAgg", "ndarray"}
          /\ heap[i].type = "Axes" =>
                \E k \in 1..Len(calls) :
                    /\ calls[k].owner = "Figure" /\ calls[k].attr = "add_subplot"
                    /\ calls[k].ret = i
    /\ Finished => Images(RenderCell) # {}

C9_Witness ==
    /\ Finished
    /\ Images(RenderCell) # {}
    /\ \E k \in 1..Len(calls) : calls[k].owner = "Figure"
    /\ \E k \in 1..Len(calls) : calls[k].owner = "matplotlib.backends.backend_agg"

\* C10: once canvas is bound, fig is bound to a Figure created before the
\* canvas, the canvas holds exactly that Figure and is that Figure's canvas;
\* the Axes bound to ax is on that Figure; and every display_png call has been
\* given that Figure.
C10_CanvasBoundToFig ==
    ns["canvas"].k # "unbound" =>
        /\ IsA(heap, ns["canvas"], "FigureCanvasAgg")
        /\ IsA(heap, ns["fig"], "Figure")
        /\ ns["fig"].id < ns["canvas"].id
        /\ heap[ns["canvas"].id].figure = ns["fig"].id
        /\ heap[ns["fig"].id].canvas = ns["canvas"].id
        /\ ns["ax"].k # "unbound" =>
              /\ IsA(heap, ns["ax"], "Axes")
              /\ heap[ns["ax"].id].figure = ns["fig"].id
              /\ \E j \in 1..Len(heap[ns["fig"].id].axes) :
                    heap[ns["fig"].id].axes[j] = ns["ax"].id
        /\ \A k \in 1..Len(calls) :
              calls[k].attr = "display_png" =>
                  calls[k].args = << heap[ns["canvas"].id].figure >>

C10_Witness ==
    /\ Finished
    /\ ns["canvas"].k = "obj"
    /\ ns["ax"].k = "obj"
    /\ \E k \in 1..Len(calls) : calls[k].attr = "display_png"

IsCallAt(p) == Cells[p[1]][p[2]].kind = "call"

\* CallPos[k]: the statement that made calls[k].
CallPos == SelectSeq(done, IsCallAt)

\* The cell that draws the histogram, and the calls it has made so far.
HistCell ==
    CHOOSE c \in CellIds :
        \E i \in 1..Len(Cells[c]) :
            Cells[c][i].kind = "call" /\ Cells[c][i].name = "hist"

HistCellCalls == {k \in 1..Len(calls) : CallPos[k][1] = HistCell}

HistCellTrace ==
    SelectSeq(CallTrace, LAMBDA a : a \in {"add_subplot", "hist", "set_title"})

\* C11: the calls of the histogram cell are, in this order, add_subplot on the
\* Figure bound to fig, which returns an Axes created by that call (the only
\* Axes of the Figure), hist on that Axes with the array bound to x and 100
\* bins, and set_title on that same Axes; each is a method of a Figure or Axes
\* instance, none a function of a module; no other cell makes such a call.
C11_HistogramCell ==
    /\ Len(calls) = Len(CallPos)
    /\ IsPrefix(HistCellTrace, << "add_subplot", "hist", "set_title" >>)
    /\ \A k \in 1..Len(calls) :
          /\ k \in HistCellCalls <=>
                calls[k].attr \in {"add_subplot", "hist", "set_title"}
          /\ k \in HistCellCalls =>
                /\ calls[k].owner \in {"Figure", "Axes"}
                /\ calls[k].self # 0
          /\ calls[k].attr = "add_subplot" =>
                /\ calls[k].self = ns["fig"].id
                /\ calls[k].ret = ns["ax"].id
                /\ heap[calls[k].ret].type = "Axes"
                /\ heap[calls[k].self].axes = << calls[k].ret >>
                /\ \A j \in 1..(k - 1) : calls[j].ret < calls[k].ret
          /\ calls[k].attr = "hist" =>
                /\ calls[k].self = ns["ax"].id
                /\ calls[k].args[1] = ns["x"].id
                /\ Len(heap[calls[k].self].hists) = 1
                /\ heap[calls[k].self].hists[1].bins = 100
          /\ calls[k].attr = "set_title" =>
                /\ calls[k].self = ns["ax"].id
                /\ heap[calls[k].self].title = TitleText
                /\ heap[calls[k].self].hists # << >>
    /\ Finished => HistCellTrace = << "add_subplot", "hist", "set_title" >>

C11_Witness ==
    /\ Finished
    /\ Cardinality(HistCellCalls) = 3
    /\ heap[ns["ax"].id].title = TitleText
    /\ heap[ns["ax"].id].hists # << >>

\* The calls that drew a sample.
SampleCalls == {k \in 1..Len(calls) : calls[k].attr = "random.randn"}

\* C12: the array bound to x holds exactly 10,000 values, those one randn call
\* drew from the generator, and still holds them unchanged; the hist call
\* comes after that randn call, is given that array, and bins its 10,000
\* values as drawn.
C12_SampleIsTheTenThousand ==
    /\ Cardinality(SampleCalls) <= 1
    /\ ns["x"].k # "unbound" =>
          /\ IsA(heap, ns["x"], "ndarray")
          /\ heap[ns["x"].id].size = 10000
          /\ heap[ns["x"].id].data = rng - 1
          /\ \E k \in SampleCalls : calls[k].ret = ns["x"].id
    /\ \A k \in 1..Len(calls) :
          calls[k].attr = "hist" =>
              /\ \E j \in SampleCalls : j < k /\ calls[j].ret = calls[k].args[1]
              /\ calls[k].args[1] = ns["x"].id
              /\ \A i \in 1..Len(heap[calls[k].self].hists) :
                    /\ heap[calls[k].self].hists[i].n = 10000
                    /\ heap[calls[k].self].hists[i].data = heap[ns["x"].id].data
    /\ Finished => Cardinality(SampleCalls) = 1

C12_Witness ==
    /\ Finished
    /\ heap[ns["x"].id].size = 10000
    /\ \E k \in 1..Len(calls) : calls[k].attr = "hist" /\ calls[k].args[1] = ns["x"].id
    /\ heap[ns["ax"].id].hists[1].n = 10000

====
